---- MODULE Spec2Model ----
(***************************************************************************)
(* Push-relabel maximum flow (src/lib/push_relabel.py, class PushRelabel)  *)
(* and cost-scaling minimum-cost flow (src/lib/cost_scaling.py, class      *)
(* MinCostPushRelabel).  One engine instance is modelled; `engine` says    *)
(* which class it is.  A step of the model is one call of a registration   *)
(* method, or one flow/label update of a running solver loop (iterations   *)
(* of a loop that change nothing are part of the step that follows them).  *)
(***************************************************************************)
EXTENDS Integers, Sequences, FiniteSets, TLC

\* ------------------------------------------------------------------ bounds
\* number of add_edge calls made on an engine driven by arbitrary calls
MaxArcs == 2
\* largest capacity passed to add_edge by arbitrary calls
MaxCap == 1
\* refine is followed while potentials stay above -PotentialFloor
PotentialFloor == 4
\* max_flow is called again while excess[source] stays above -MaxDeficit
MaxDeficit == 3

\* num_vertices of the engines driven by arbitrary calls
Sizes == {3}
MinCostSizes == {2}
\* costs, supply values and epsilons passed by arbitrary calls
Costs == {-1, 1}
Supplies == {-1, 0, 1}
Epsilons == {1, 2}
\* the networks the scan order of max_flow is followed on: four vertices, arcs
\* from a lower to a higher index, source 0 and sink V - 1
OrderSizes == {4}
\* the networks refine is run on without any set_supply: three vertices, arcs
\* between distinct vertices, costs of different size
NoSupplySizes == {3}
NoSupplyCosts == {-2, 1}

\* num_nodes of the example blocks of both files
ExampleV == 6
\* the value the example of push_relabel.py expects
ExampleMaxFlow == 23
\* default of min_cost_flow's alpha
DefaultAlpha == 2

VARIABLES
    engine,             \* "PushRelabel" or "MinCostPushRelabel"
    V,                  \* self.V
    graph,              \* self.graph: key -> list of neighbours
    capacity,           \* self.capacity[u][v]
    flow,               \* self.flow[u][v]
    excess,             \* self.excess[u]
    height,             \* self.height[u]            (PushRelabel)
    cost,               \* self.cost[u][v]           (MinCostPushRelabel)
    potential,          \* self.potential[u]         (MinCostPushRelabel)
    supply,             \* self.supply               (MinCostPushRelabel)
    demand,             \* self.demand               (MinCostPushRelabel)
    call,               \* the method called last, "none" before the first call
    pc,                 \* where the caller / the running method is
    s,                  \* max_flow: source
    t,                  \* max_flow: sink
    u,                  \* max_flow: index of the for loop of line 126; refine: u
    active_node_found,  \* max_flow: local of the same name
    epsilon,            \* refine: its argument
    active_nodes,       \* refine: local of the same name
    j,                  \* refine: position of the running for loop in graph[u]
    pushed,             \* refine: local of the same name
    ret,                \* what the last completed call returned
    raised              \* exception that ended the program, or "none"

vars == <<engine, V, graph, capacity, flow, excess, height, cost, potential,
          supply, demand, call, pc, s, t, u, active_node_found, epsilon,
          active_nodes, j, pushed, ret, raised>>

\* solver state of PushRelabel.max_flow / of MinCostPushRelabel.refine
prLocals == <<s, t, active_node_found, height>>
mcLocals == <<epsilon, active_nodes, j, pushed, potential>>

Vertices == 0 .. (V - 1)

Min(a, b) == IF a <= b THEN a ELSE b

Abs(a) == IF a < 0 THEN -a ELSE a

\* Python list indexing: a negative index counts from the end
Idx(i) == IF i < 0 THEN i + V ELSE i
InRange(i) == (-V) <= i /\ i <= V - 1

Zeros(n) == [i \in 0 .. (n - 1) |-> 0]
ZeroMatrix(n) == [i \in 0 .. (n - 1) |-> Zeros(n)]

RECURSIVE TotalLen(_, _)
TotalLen(g, k) == IF k < -1 THEN 0 ELSE Len(g[k]) + TotalLen(g, k - 1)

NoReturn == [kind |-> "none", val |-> 0]

\* ------------------------------------------------------- PushRelabel.__init__
PushRelabel_init(n) ==
    /\ engine = "PushRelabel"
    /\ V = n
    /\ excess = Zeros(n)
    /\ height = Zeros(n)
    /\ flow = ZeroMatrix(n)
    /\ capacity = ZeroMatrix(n)
    /\ graph = [k \in (-1) .. n |-> <<>>]
    /\ cost = <<>> /\ potential = <<>> /\ supply = <<>> /\ demand = <<>>

\* ------------------------------------------------ MinCostPushRelabel.__init__
MinCostPushRelabel_init(n) ==
    /\ engine = "MinCostPushRelabel"
    /\ V = n
    /\ graph = [k \in (-1) .. n |-> <<>>]
    /\ capacity = ZeroMatrix(n)
    /\ flow = ZeroMatrix(n)
    /\ cost = ZeroMatrix(n)
    /\ demand = <<>>
    /\ supply = <<>>
    /\ excess = Zeros(n)
    /\ potential = Zeros(n)
    /\ height = <<>>

\* no method has been called yet
Idle ==
    /\ call = "none"
    /\ pc = "build"
    /\ s = 0 /\ t = 0 /\ u = 0 /\ j = 1
    /\ active_node_found = FALSE
    /\ pushed = FALSE
    /\ epsilon = 0
    /\ active_nodes = <<>>
    /\ ret = NoReturn
    /\ raised = "none"

Init ==
    /\ \/ \E n \in Sizes \cup {ExampleV} : PushRelabel_init(n)
       \/ \E n \in MinCostSizes \cup {ExampleV} : MinCostPushRelabel_init(n)
    /\ Idle

\* ------------------------------------------------------- PushRelabel.add_edge
\* graph[u].append(v) runs first; the capacity store raises IndexError for an
\* index outside [-V, V) and wraps a negative one.
add_edge(a, b, cap) ==
    /\ engine = "PushRelabel"
    /\ pc = "build"
    /\ call' = "add_edge"
    /\ graph' = [graph EXCEPT ![a] = Append(@, b)]
    /\ IF InRange(a) /\ InRange(b)
       THEN /\ capacity' = [capacity EXCEPT ![Idx(a)][Idx(b)] = cap]
            /\ UNCHANGED <<pc, raised>>
       ELSE /\ capacity' = capacity
            /\ pc' = "raised"
            /\ raised' = "IndexError"
    /\ UNCHANGED <<engine, V, flow, excess, u, ret, cost, supply, demand>>
    /\ UNCHANGED <<prLocals, mcLocals>>

\* ------------------------------------------------- PushRelabel.initialize_preflow
SaturatedFlow(src, v) == capacity[src][v]

RECURSIVE PreflowFlow(_, _, _)
PreflowFlow(f, nbrs, src) ==
    IF nbrs = <<>> THEN f
    ELSE LET v == Head(nbrs)
             f1 == [f EXCEPT ![src][v] = SaturatedFlow(src, v)]
             f2 == [f1 EXCEPT ![v][src] = -capacity[src][v]]
         IN PreflowFlow(f2, Tail(nbrs), src)

RECURSIVE PreflowExcess(_, _, _)
PreflowExcess(e, nbrs, src) ==
    IF nbrs = <<>> THEN e
    ELSE LET v == Head(nbrs)
             e1 == [e EXCEPT ![v] = capacity[src][v]]
             e2 == [e1 EXCEPT ![src] = @ - capacity[src][v]]
         IN PreflowExcess(e2, Tail(nbrs), src)

initialize_preflow(src) ==
    /\ height' = [height EXCEPT ![src] = V]
    /\ flow' = PreflowFlow(flow, graph[src], src)
    /\ excess' = PreflowExcess(excess, graph[src], src)

\* ------------------------------------------------------------ PushRelabel.push
Residual(a, b) == capacity[a][b] - flow[a][b]

\* mutant: the push is not limited by the residual capacity
Delta_excess(a, b) == excess[a]

\* mutant: the push is not limited by the excess
Delta_residual(a, b) == Residual(a, b)

Delta(a, b) == Min(excess[a], Residual(a, b))

push(a, b) ==
    /\ flow' = [flow EXCEPT ![a][b] = @ + Delta(a, b), ![b][a] = @ - Delta(a, b)]
    /\ excess' = [excess EXCEPT ![a] = @ - Delta(a, b), ![b] = @ + Delta(a, b)]

\* --------------------------------------------------------- PushRelabel.relabel
ResidualNeighbours(a) == {b \in Vertices : Residual(a, b) > 0}

MinHeight(a) ==
    CHOOSE h \in {height[b] : b \in ResidualNeighbours(a)} :
        \A b \in ResidualNeighbours(a) : h <= height[b]

\* mutant: the relabel stops at the lowest neighbour's height
NewHeight_same(a) == MinHeight(a)

\* mutant: the relabel goes two above the lowest neighbour
NewHeight_plus_two(a) == MinHeight(a) + 2

\* line 104
NewHeight(a) == MinHeight(a) + 1

relabel(a) ==
    height' = IF ResidualNeighbours(a) # {}
              THEN [height EXCEPT ![a] = NewHeight(a)]
              ELSE height

\* -------------------------------------------------------- PushRelabel.max_flow
\* line 118: the call builds the preflow and enters the first pass of the loop
max_flow(src, snk) ==
    /\ engine = "PushRelabel"
    /\ call' = "max_flow"
    /\ initialize_preflow(src)
    /\ s' = src /\ t' = snk
    /\ u' = 0
    /\ active_node_found' = FALSE
    /\ pc' = "max_flow"
    /\ UNCHANGED <<engine, V, graph, capacity, ret, raised, cost, supply, demand>>
    /\ UNCHANGED mcLocals

\* mutant: a vertex with one unit of excess is not active
Active_above_one(a) == a # s /\ a # t /\ excess[a] > 1

\* mutant: the sink is not skipped
Active_with_sink(a) == a # s /\ excess[a] > 0

\* lines 127-130: the vertices the for loop does something with
Active(a) == a # s /\ a # t /\ excess[a] > 0

\* the next vertex, from index u on, that the for loop of line 126 stops at
ActiveFrom == {a \in Vertices : a >= u /\ Active(a)}
NextActive == CHOOSE a \in ActiveFrom : \A b \in ActiveFrom : a <= b

\* mutant: the height test is missing
Admissible_any(a, b) == Residual(a, b) > 0

\* line 136
Admissible(a, b) == Residual(a, b) > 0 /\ height[a] = height[b] + 1

\* lines 135-140: range(V) is scanned in index order and the loop breaks at the first
AdmissibleSet(a) == {b \in Vertices : Admissible(a, b)}

\* mutant: the scan runs from the highest index down
FirstAdmissible_last(a) == CHOOSE b \in AdmissibleSet(a) : \A c \in AdmissibleSet(a) : b >= c

FirstAdmissible(a) == CHOOSE b \in AdmissibleSet(a) : \A c \in AdmissibleSet(a) : b <= c

Push ==
    /\ pc = "max_flow"
    /\ ActiveFrom # {}
    /\ AdmissibleSet(NextActive) # {}
    /\ push(NextActive, FirstAdmissible(NextActive))
    /\ active_node_found' = TRUE
    /\ u' = NextActive + 1
    /\ UNCHANGED <<engine, V, graph, capacity, height, call, pc, s, t, ret, raised>>
    /\ UNCHANGED <<cost, supply, demand, mcLocals>>

Relabel ==
    /\ pc = "max_flow"
    /\ ActiveFrom # {}
    /\ AdmissibleSet(NextActive) = {}
    /\ relabel(NextActive)
    /\ active_node_found' = TRUE
    /\ u' = NextActive + 1
    /\ UNCHANGED <<engine, V, graph, capacity, flow, excess, call, pc, s, t, ret, raised>>
    /\ UNCHANGED <<cost, supply, demand, mcLocals>>

\* line 123: the for loop is over and a vertex was active: another pass
NextPass ==
    /\ pc = "max_flow"
    /\ ActiveFrom = {}
    /\ active_node_found
    /\ active_node_found' = FALSE
    /\ u' = 0
    /\ UNCHANGED <<engine, V, graph, capacity, flow, excess, height, call, pc, s, t,
                   ret, raised, cost, supply, demand, mcLocals>>

\* line 149
Return ==
    /\ pc = "max_flow"
    /\ ActiveFrom = {}
    /\ ~active_node_found
    /\ ret' = [kind |-> "int", val |-> excess[t]]
    /\ pc' = "returned"
    /\ UNCHANGED <<engine, V, graph, capacity, flow, excess, call, u, raised,
                   cost, supply, demand, prLocals, mcLocals>>

\* ------------------------------------------------- push_relabel.py example block
ExampleEdges ==
    << <<0, 1, 16>>, <<0, 2, 13>>, <<1, 2, 10>>, <<1, 3, 12>>, <<2, 1, 4>>,
       <<2, 4, 14>>, <<3, 2, 9>>, <<3, 5, 20>>, <<4, 3, 7>>, <<4, 5, 4>> >>

\* ------------------------------------------------ MinCostPushRelabel.add_edge
\* both appends run before the capacity store, which raises IndexError for an
\* index outside [-V, V)
MinCost_add_edge(a, b, cap, c) ==
    /\ engine = "MinCostPushRelabel"
    /\ pc = "build"
    /\ call' = "add_edge"
    /\ graph' = [graph EXCEPT ![a] = Append(@, b), ![b] = Append(@, a)]
    /\ IF InRange(a) /\ InRange(b)
       THEN /\ capacity' = [capacity EXCEPT ![Idx(a)][Idx(b)] = cap]
            /\ cost' = [cost EXCEPT ![Idx(a)][Idx(b)] = c, ![Idx(b)][Idx(a)] = -c]
            /\ UNCHANGED <<pc, raised>>
       ELSE /\ UNCHANGED <<capacity, cost>>
            /\ pc' = "raised"
            /\ raised' = "IndexError"
    /\ UNCHANGED <<engine, V, flow, excess, u, ret, supply, demand>>
    /\ UNCHANGED <<prLocals, mcLocals>>

\* ---------------------------------------------- MinCostPushRelabel.set_supply
\* mutant: zero is taken as a supply
IsSupply_zero(val) == val >= 0

IsSupply(val) == val > 0
IsDemand(val) == val < 0

set_supply(a, val) ==
    /\ engine = "MinCostPushRelabel"
    /\ pc = "build"
    /\ call' = "set_supply"
    /\ IF IsSupply(val)
       THEN /\ excess' = [excess EXCEPT ![a] = val]
            /\ supply' = Append(supply, a)
            /\ demand' = demand
       ELSE IF IsDemand(val)
       THEN /\ excess' = [excess EXCEPT ![a] = val]
            /\ demand' = Append(demand, a)
            /\ supply' = supply
       ELSE UNCHANGED <<excess, supply, demand>>
    /\ UNCHANGED <<engine, V, graph, capacity, flow, cost, pc, u, ret, raised>>
    /\ UNCHANGED <<prLocals, mcLocals>>

\* ------------------------------------------- MinCostPushRelabel._reduced_cost
ReducedCost(a, b) == cost[a][b] + potential[a] - potential[b]

\* ---------------------------------------------------- MinCostPushRelabel.push
\* mutant: the push is not limited by the residual capacity
MinCost_Delta_excess(a, b) == excess[a]

MinCost_Delta(a, b) == Min(excess[a], capacity[a][b] - flow[a][b])

\* mutant: the opposite entry of the flow matrix is not updated
MinCost_push_one_way(a, b) ==
    /\ flow' = [flow EXCEPT ![a][b] = @ + MinCost_Delta(a, b)]
    /\ excess' = [excess EXCEPT ![a] = @ - MinCost_Delta(a, b),
                                ![b] = @ + MinCost_Delta(a, b)]

MinCost_push(a, b) ==
    /\ flow' = [flow EXCEPT ![a][b] = @ + MinCost_Delta(a, b),
                            ![b][a] = @ - MinCost_Delta(a, b)]
    /\ excess' = [excess EXCEPT ![a] = @ - MinCost_Delta(a, b),
                                ![b] = @ + MinCost_Delta(a, b)]

\* ------------------------------------------------- MinCostPushRelabel.relabel
\* lines 104-107: the neighbours of graph[a] with residual capacity
RelabelCandidates(a) ==
    {potential[graph[a][k]] - cost[a][graph[a][k]] :
        k \in {i \in 1 .. Len(graph[a]) : Residual(a, graph[a][i]) > 0}}

MinPotentialDiff(a) ==
    CHOOSE d \in RelabelCandidates(a) : \A e \in RelabelCandidates(a) : d <= e

MinCost_relabel(a, eps) ==
    potential' = IF RelabelCandidates(a) # {}
                 THEN [potential EXCEPT ![a] = MinPotentialDiff(a) - eps]
                 ELSE potential

\* -------------------------------------------------- MinCostPushRelabel.refine
refine(eps) ==
    /\ engine = "MinCostPushRelabel"
    /\ call' = "refine"
    /\ epsilon' = eps
    /\ u' = 0 /\ j' = 1
    /\ pc' = "saturate"
    /\ UNCHANGED <<engine, V, graph, capacity, flow, excess, cost, potential, supply,
                   demand, active_nodes, pushed, ret, raised, prLocals>>

\* lines 120-124: the arcs, from position (u, j) of the two for loops on, that
\* the loop saturates
Saturable(a, k) == ReducedCost(a, graph[a][k]) < 0 /\ Residual(a, graph[a][k]) > 0

ArcPositions == UNION {{<<a, k>> : k \in 1 .. Len(graph[a])} : a \in Vertices}

SaturableFrom ==
    {p \in ArcPositions :
        /\ p[1] > u \/ (p[1] = u /\ p[2] >= j)
        /\ Saturable(p[1], p[2])}

LexLeq(p, q) == p[1] < q[1] \/ (p[1] = q[1] /\ p[2] <= q[2])

NextSaturable == CHOOSE p \in SaturableFrom : \A q \in SaturableFrom : LexLeq(p, q)

\* lines 125-128
Saturate ==
    /\ pc = "saturate"
    /\ SaturableFrom # {}
    /\ LET a == NextSaturable[1]
           b == graph[a][NextSaturable[2]]
           delta == Residual(a, b)
       IN /\ flow' = [flow EXCEPT ![a][b] = @ + delta, ![b][a] = @ - delta]
          /\ excess' = [excess EXCEPT ![a] = @ - delta, ![b] = @ + delta]
          /\ u' = a
          /\ j' = NextSaturable[2] + 1
    /\ UNCHANGED <<engine, V, graph, capacity, cost, potential, supply, demand, call,
                   pc, epsilon, active_nodes, pushed, ret, raised, prLocals>>

\* line 131
RECURSIVE ActiveList(_)
ActiveList(k) ==
    IF k >= V THEN <<>>
    ELSE (IF excess[k] > 0 THEN <<k>> ELSE <<>>) \o ActiveList(k + 1)

EndSaturate ==
    /\ pc = "saturate"
    /\ SaturableFrom = {}
    /\ active_nodes' = ActiveList(0)
    /\ pc' = "discharge"
    /\ UNCHANGED <<engine, V, graph, capacity, flow, excess, cost, potential, supply,
                   demand, call, u, epsilon, j, pushed, ret, raised, prLocals>>

\* line 137, reached from line 134 and at the end of each sweep of graph[u]
WhileExcess(a) ==
    IF excess[a] > 0
    THEN pc' = "sweep" /\ j' = 1 /\ pushed' = FALSE
    ELSE pc' = "discharge" /\ UNCHANGED <<j, pushed>>

\* lines 133-134
Pop ==
    /\ pc = "discharge"
    /\ active_nodes # <<>>
    /\ u' = Head(active_nodes)
    /\ active_nodes' = Tail(active_nodes)
    /\ WhileExcess(Head(active_nodes))
    /\ UNCHANGED <<engine, V, graph, capacity, flow, excess, cost, potential, supply,
                   demand, call, epsilon, ret, raised, prLocals>>

\* line 133: the work-list is empty, refine returns (None)
RefineReturn ==
    /\ pc = "discharge"
    /\ active_nodes = <<>>
    /\ pc' = "returned"
    /\ ret' = [kind |-> "None", val |-> 0]
    /\ UNCHANGED <<engine, V, graph, capacity, flow, excess, cost, supply, demand,
                   call, u, raised, prLocals, mcLocals>>

\* line 141: the positions of graph[u], from j on, the for loop pushes along
PushableFrom ==
    {k \in j .. Len(graph[u]) :
        Residual(u, graph[u][k]) > 0 /\ ReducedCost(u, graph[u][k]) < 0}

NextPushable == CHOOSE k \in PushableFrom : \A l \in PushableFrom : k <= l

\* lines 142-147
RefinePush ==
    /\ pc = "sweep"
    /\ PushableFrom # {}
    /\ LET v == graph[u][NextPushable]
           was_inactive == excess[v] <= 0
       IN /\ MinCost_push(u, v)
          /\ active_nodes' = IF excess'[v] > 0 /\ was_inactive
                             THEN Append(active_nodes, v)
                             ELSE active_nodes
    /\ pushed' = TRUE
    /\ j' = NextPushable + 1
    /\ UNCHANGED <<engine, V, graph, capacity, cost, potential, supply, demand, call,
                   pc, u, epsilon, ret, raised, prLocals>>

\* lines 150-152: a sweep without a push relabels u
RefineRelabel ==
    /\ pc = "sweep"
    /\ PushableFrom = {}
    /\ ~pushed
    /\ potential[u] > -PotentialFloor
    /\ MinCost_relabel(u, epsilon)
    /\ WhileExcess(u)
    /\ UNCHANGED <<engine, V, graph, capacity, flow, excess, cost, supply, demand,
                   call, u, epsilon, active_nodes, ret, raised, prLocals>>

\* line 150: a sweep with a push goes back to line 137
SweepDone ==
    /\ pc = "sweep"
    /\ PushableFrom = {}
    /\ pushed
    /\ WhileExcess(u)
    /\ UNCHANGED <<engine, V, graph, capacity, flow, excess, cost, potential, supply,
                   demand, call, u, epsilon, active_nodes, ret, raised, prLocals>>

\* ------------------------------------------- MinCostPushRelabel.min_cost_flow
RECURSIVE Count(_, _)
Count(sq, x) ==
    IF sq = <<>> THEN 0 ELSE (IF Head(sq) = x THEN 1 ELSE 0) + Count(Tail(sq), x)

RECURSIVE Power(_, _)
Power(b, n) == IF n = 0 THEN 1 ELSE b * Power(b, n - 1)

\* lines 167-173: cost[a][b] is multiplied once for every occurrence of b in graph[a]
ScaledCost(a, b) == cost[a][b] * Power(V, Count(graph[a], b))

\* lines 182-191: the capacities of the auxiliary PushRelabel(V + 2)
AuxCapacity ==
    [a \in 0 .. (V + 1) |-> [b \in 0 .. (V + 1) |->
        IF a < V /\ b < V THEN (IF capacity[a][b] > 0 THEN capacity[a][b] ELSE 0)
        ELSE IF a = V /\ b < V /\ Count(supply, b) > 0 THEN Abs(excess[b])
        ELSE IF b = V + 1 /\ a < V /\ Count(demand, a) > 0 THEN Abs(excess[a])
        ELSE 0]]

\* lines 167-194: the costs are scaled in place, the auxiliary graph is built,
\* and g.max_flow() is called without the two arguments max_flow requires:
\* Python raises TypeError before max_flow runs
min_cost_flow(alpha) ==
    /\ engine = "MinCostPushRelabel"
    /\ pc = "build"
    /\ call' = "min_cost_flow"
    /\ cost' = [a \in Vertices |-> [b \in Vertices |-> ScaledCost(a, b)]]
    /\ pc' = "raised"
    /\ raised' = "TypeError"
    /\ UNCHANGED <<engine, V, graph, capacity, flow, excess, supply, demand, u, ret>>
    /\ UNCHANGED <<prLocals, mcLocals>>

\* ------------------------------------------------ cost_scaling.py example block
ExampleArcs ==
    << <<0, 2, 15, 4>>, <<0, 3, 10, 3>>, <<1, 2, 20, 6>>, <<1, 3, 5, 8>>,
       <<2, 4, 25, 2>>, <<3, 4, 10, 5>>, <<3, 5, 15, 4>>, <<4, 5, 20, 1>> >>

ExampleSupplies == << <<0, 20>>, <<1, 15>>, <<4, -10>>, <<5, -25>> >>

\* ------------------------------------------------------------------ callers
\* Calls with in-range vertices and non-negative capacities (self-loops and
\* repeated arcs included, since add_edge takes them).
AddEdge ==
    /\ V \in Sizes
    /\ TotalLen(graph, V) < MaxArcs
    /\ \E a \in Vertices, b \in Vertices, cap \in 0 .. MaxCap : add_edge(a, b, cap)

\* lines 168-169 of the example: the next edge of the list is added
AddExampleEdge ==
    /\ V = ExampleV
    /\ TotalLen(graph, V) < Len(ExampleEdges)
    /\ LET e == ExampleEdges[TotalLen(graph, V) + 1] IN add_edge(e[1], e[2], e[3])

\* line 178 of the example, and max_flow(source, sink) on the other engines
MaxFlow ==
    \/ /\ V \in Sizes
       /\ pc = "build"
       /\ \E src \in Vertices, snk \in Vertices : src # snk /\ max_flow(src, snk)
    \/ /\ V = ExampleV
       /\ pc = "build"
       /\ TotalLen(graph, V) = Len(ExampleEdges)
       /\ max_flow(0, 5)

MinCostAddEdge ==
    /\ V \in MinCostSizes
    /\ TotalLen(graph, V) < 2 * MaxArcs
    /\ \E a \in Vertices, b \in Vertices, cap \in 1 .. MaxCap, c \in Costs :
          MinCost_add_edge(a, b, cap, c)

\* every vertex gets at most one non-zero supply
Declared(a) == Count(supply, a) + Count(demand, a) > 0

SetSupply ==
    /\ V \in MinCostSizes
    /\ \E a \in Vertices, val \in Supplies : ~Declared(a) /\ set_supply(a, val)

\* lines 238-248 of the example: the arcs, then the supplies, in order
AddMinCostExample ==
    /\ V = ExampleV
    /\ LET n == TotalLen(graph, V) \div 2
           m == Len(supply) + Len(demand)
       IN IF n < Len(ExampleArcs)
          THEN LET e == ExampleArcs[n + 1] IN MinCost_add_edge(e[1], e[2], e[3], e[4])
          ELSE /\ m < Len(ExampleSupplies)
               /\ set_supply(ExampleSupplies[m + 1][1], ExampleSupplies[m + 1][2])

\* refine(epsilon) on a built network, and again with a smaller epsilon
Refine ==
    /\ V \in MinCostSizes
    /\ \E eps \in Epsilons :
          /\ pc = "build" \/ (pc = "returned" /\ call = "refine" /\ eps < epsilon)
          /\ refine(eps)

\* line 252 of the example, and min_cost_flow() on the other engines
MinCostFlow ==
    /\ V = ExampleV => Len(supply) + Len(demand) = Len(ExampleSupplies)
    /\ min_cost_flow(DefaultAlpha)

Next ==
    \/ AddEdge
    \/ AddExampleEdge
    \/ MaxFlow
    \/ Push
    \/ Relabel
    \/ NextPass
    \/ Return
    \/ MinCostAddEdge
    \/ SetSupply
    \/ AddMinCostExample
    \/ Refine
    \/ Saturate
    \/ EndSaturate
    \/ Pop
    \/ RefinePush
    \/ RefineRelabel
    \/ SweepDone
    \/ RefineReturn
    \/ MinCostFlow

Spec == Init /\ [][Next]_vars

\* The PushRelabel engine alone.  The loop of max_flow runs to completion once
\* entered: the program is single-threaded and nothing suspends it.
InitPushRelabel == Init /\ engine = "PushRelabel"

NextMaxFlow ==
    \/ AddEdge
    \/ AddExampleEdge
    \/ MaxFlow
    \/ Push
    \/ Relabel
    \/ NextPass
    \/ Return

FairMaxFlowSpec ==
    /\ InitPushRelabel
    /\ [][NextMaxFlow]_vars
    /\ WF_vars(Push \/ Relabel \/ NextPass \/ Return)

\* The MinCostPushRelabel engine alone.  The loops of refine run on once
\* entered, as those of max_flow do.
InitMinCost == Init /\ engine = "MinCostPushRelabel"

NextRefine ==
    \/ MinCostAddEdge
    \/ SetSupply
    \/ AddMinCostExample
    \/ Refine
    \/ Saturate
    \/ EndSaturate
    \/ Pop
    \/ RefinePush
    \/ RefineRelabel
    \/ SweepDone
    \/ RefineReturn

FairRefineSpec ==
    /\ InitMinCost
    /\ [][NextRefine]_vars
    /\ WF_vars(Saturate \/ EndSaturate \/ Pop \/ RefinePush \/ RefineRelabel
                  \/ SweepDone \/ RefineReturn)

\* max_flow on four vertices, where a vertex can have two admissible arcs
InitOrder == (\E n \in OrderSizes : PushRelabel_init(n)) /\ Idle

AddForwardEdge ==
    /\ V \in OrderSizes
    /\ pc = "build"
    /\ TotalLen(graph, V) < MaxArcs + 1
    /\ \E a \in Vertices, b \in Vertices, cap \in 1 .. MaxCap : a < b /\ add_edge(a, b, cap)

MaxFlowAcross ==
    /\ V \in OrderSizes
    /\ pc = "build"
    /\ max_flow(0, V - 1)

NextOrder ==
    \/ AddForwardEdge
    \/ MaxFlowAcross
    \/ Push
    \/ Relabel
    \/ NextPass
    \/ Return

SpecOrder == InitOrder /\ [][NextOrder]_vars

\* refine on a network nothing was declared on with set_supply: the phase
\* starts with every excess 0
InitNoSupply == (\E n \in NoSupplySizes : MinCostPushRelabel_init(n)) /\ Idle

AddEdgeNoSupply ==
    /\ V \in NoSupplySizes
    /\ TotalLen(graph, V) < 2 * MaxArcs
    /\ \E a \in Vertices, b \in Vertices, cap \in 1 .. MaxCap, c \in NoSupplyCosts :
          a # b /\ MinCost_add_edge(a, b, cap, c)

RefineNoSupply ==
    /\ V \in NoSupplySizes
    /\ \E eps \in Epsilons :
          /\ pc = "build" \/ (pc = "returned" /\ call = "refine" /\ eps < epsilon)
          /\ refine(eps)

NextNoSupply ==
    \/ AddEdgeNoSupply
    \/ RefineNoSupply
    \/ Saturate
    \/ EndSaturate
    \/ Pop
    \/ RefinePush
    \/ RefineRelabel
    \/ SweepDone
    \/ RefineReturn

SpecNoSupply == InitNoSupply /\ [][NextNoSupply]_vars

\* max_flow(source, sink) called again on the engine a call has returned on,
\* with no add_edge in between
MaxFlowAgain ==
    /\ V \in Sizes
    /\ pc = "returned"
    /\ call = "max_flow"
    /\ excess[s] > -MaxDeficit
    /\ max_flow(s, t)

NextRepeat == NextMaxFlow \/ MaxFlowAgain

SpecRepeat == InitPushRelabel /\ [][NextRepeat]_vars

\* add_edge called with any arguments, also the ones the contract excludes:
\* a vertex index of -1 or V, a negative capacity
ArgVertices == (-1) .. V
ArgCaps == (-1) .. MaxCap

AddEdgeAny ==
    /\ V \in Sizes
    /\ TotalLen(graph, V) < MaxArcs
    /\ \E a \in ArgVertices, b \in ArgVertices, cap \in ArgCaps : add_edge(a, b, cap)

MinCostAddEdgeAny ==
    /\ V \in MinCostSizes
    /\ TotalLen(graph, V) < 2 * MaxArcs
    /\ \E a \in ArgVertices, b \in ArgVertices, cap \in ArgCaps, c \in Costs :
          MinCost_add_edge(a, b, cap, c)

NextAnyArgs == AddEdgeAny \/ MinCostAddEdgeAny

SpecAnyArgs == Init /\ [][NextAnyArgs]_vars

\* ================================================================ properties
RECURSIVE SumOver(_, _)
SumOver(S, f) ==
    IF S = {} THEN 0
    ELSE LET x == CHOOSE y \in S : TRUE IN f[x] + SumOver(S \ {x}, f)

\* capacity of the cut (S, complement) of an n-vertex capacity matrix
CutCapacity(capm, n, S) ==
    SumOver(S \X ((0 .. (n - 1)) \ S), [p \in S \X ((0 .. (n - 1)) \ S) |-> capm[p[1]][p[2]]])

MinCutOf(capm, n, src, snk) ==
    LET cuts == {CutCapacity(capm, n, S \cup {src}) :
                    S \in SUBSET ((0 .. (n - 1)) \ {src, snk})}
    IN CHOOSE c \in cuts : \A d \in cuts : c <= d

\* the vertices reachable from R along arcs with positive residual capacity
RECURSIVE ResidualReach(_)
ResidualReach(R) ==
    LET R2 == R \cup {b \in Vertices : \E a \in R : Residual(a, b) > 0}
    IN IF R2 = R THEN R ELSE ResidualReach(R2)

MaxFlowReturned == call = "max_flow" /\ pc = "returned"

NetOutflow(a) == SumOver(Vertices, flow[a])

\* C1: on a freshly built engine max_flow(source, sink) returns the minimum cut
\* capacity, which is the final excess[sink]; at return the sink is not
\* reachable from the source in the residual graph; the example returns 23.
C1_MaxFlowIsMinCut ==
    MaxFlowReturned =>
        /\ ret.kind = "int"
        /\ ret.val = MinCutOf(capacity, V, s, t)
        /\ ret.val = excess[t]
        /\ t \notin ResidualReach({s})
        /\ (V = ExampleV => ret.val = ExampleMaxFlow)

C1_Witness ==
    /\ MaxFlowReturned
    /\ V = ExampleV
    /\ ret.val = ExampleMaxFlow

\* ---- the instance min_cost_flow is called on
\* the supplies declared with set_supply (min_cost_flow has not touched excess
\* when it reaches line 194)
DeclaredSupply(a) == IF Declared(a) THEN excess[a] ELSE 0

SupplyNodes == {a \in Vertices : Count(supply, a) > 0}
DemandNodes == {a \in Vertices : Count(demand, a) > 0}

AuxMaxFlow == MinCutOf(AuxCapacity, V + 2, V, V + 1)

\* the auxiliary maximum flow saturates every super-source arc and every
\* super-sink arc
FeasibleInstance ==
    /\ AuxMaxFlow = SumOver(SupplyNodes, [a \in SupplyNodes |-> Abs(excess[a])])
    /\ AuxMaxFlow = SumOver(DemandNodes, [a \in DemandNodes |-> Abs(excess[a])])

MinCostFlowEnded == call = "min_cost_flow" /\ pc \in {"returned", "raised"}

\* the per-unit cost given to add_edge, recovered from the scaled matrix
OriginalCost(a, b) == cost[a][b] \div Power(V, Count(graph[a], b))

ArcFlows == [Vertices \X Vertices -> 0 .. MaxCap]

IsFeasibleFlow(f) ==
    /\ \A p \in Vertices \X Vertices : f[p] <= capacity[p[1]][p[2]]
    /\ \A a \in Vertices :
          SumOver(Vertices, [b \in Vertices |-> f[<<a, b>>] - f[<<b, a>>]])
              = DeclaredSupply(a)

CostOf(f) ==
    SumOver(Vertices \X Vertices,
            [p \in Vertices \X Vertices |-> f[p] * OriginalCost(p[1], p[2])])

\* C2: on an instance with a feasible circulation min_cost_flow returns
\* (total_cost, flow) where flow respects the capacities, gives every vertex a
\* net outflow equal to its declared supply, and total_cost is the minimum
\* cost of a feasible flow.
C2_MinCostFlowReturnsOptimum ==
    (MinCostFlowEnded /\ FeasibleInstance) =>
        /\ pc = "returned"
        /\ ret.kind = "pair"
        /\ \A a \in Vertices, b \in Vertices : flow[a][b] <= capacity[a][b]
        /\ \A a \in Vertices : NetOutflow(a) = DeclaredSupply(a)
        /\ \A f \in ArcFlows : IsFeasibleFlow(f) => ret.val <= CostOf(f)
        /\ \E f \in ArcFlows : IsFeasibleFlow(f) /\ ret.val = CostOf(f)

\* C3: on an instance whose supplies and demands cannot all be met
\* min_cost_flow returns the infeasible outcome (None, None).
C3_InfeasibleIsReported ==
    (MinCostFlowEnded /\ ~FeasibleInstance) =>
        /\ pc = "returned"
        /\ ret.kind = "infeasible"

\* C4: when max_flow returns, every vertex other than source and sink has
\* net outflow 0.
C4_Conservation ==
    MaxFlowReturned => \A a \in Vertices \ {s, t} : NetOutflow(a) = 0

C4_Witness ==
    /\ MaxFlowReturned
    /\ \E a \in Vertices \ {s, t} : \E b \in Vertices : flow[a][b] > 0

NonNegativeCapacities == \A a \in Vertices, b \in Vertices : capacity[a][b] >= 0

\* C5: with non-negative capacities, in every state of max_flow and of refine
\* flow[u][v] <= capacity[u][v] for every ordered pair.
C5_FlowWithinCapacity ==
    (call \in {"max_flow", "refine"} /\ NonNegativeCapacities) =>
        \A a \in Vertices, b \in Vertices : flow[a][b] <= capacity[a][b]

\* a push of refine has just filled an arc of positive capacity
C5_Witness ==
    /\ call = "refine"
    /\ pc = "sweep"
    /\ pushed
    /\ \E b \in Vertices : capacity[u][b] > 0 /\ flow[u][b] = capacity[u][b]

NoSelfLoops == \A a \in Vertices : Count(graph[a], a) = 0

\* C6 as stated, on networks without self-loops: after max_flow returns,
\* flow[u][v] >= 0 for every pair with capacity[u][v] > 0, also when both
\* (u,v) and (v,u) are arcs.
C6_FlowNonNegativeOnArcs ==
    (MaxFlowReturned /\ NoSelfLoops) =>
        \A a \in Vertices, b \in Vertices : capacity[a][b] > 0 => flow[a][b] >= 0

\* C6 as amended: after max_flow returns, flow[u][v] >= -capacity[v][u] for
\* every ordered pair, so flow[u][v] >= 0 on every arc (u,v) that has no
\* opposite arc of positive capacity.
C6_FlowAtLeastMinusOpposite ==
    MaxFlowReturned =>
        \A a \in Vertices, b \in Vertices :
            /\ flow[a][b] >= -capacity[b][a]
            /\ (capacity[a][b] > 0 /\ capacity[b][a] = 0) => flow[a][b] >= 0

\* a pair of opposite arcs on which the stored flow is negative one way
C6_Witness ==
    /\ MaxFlowReturned
    /\ NoSelfLoops
    /\ \E a \in Vertices, b \in Vertices :
          capacity[a][b] > 0 /\ capacity[b][a] > 0 /\ flow[a][b] < 0

\* C7: in every reachable state of both engines flow[v][u] = -flow[u][v] for
\* all u, v (so flow[u][u] = 0), after any sequence of add_edge calls.
C7_FlowAntisymmetric ==
    \A a \in Vertices, b \in Vertices : flow[b][a] = -flow[a][b]

InvalidArc(a, b, cap) == a = b \/ a \notin Vertices \/ b \notin Vertices \/ cap < 0

\* C8: add_edge with u = v, an index outside [0, V) or a negative capacity
\* leaves the adjacency lists and the capacity, cost and flow matrices as they
\* were, in both engines.
C8_InvalidAddEdgeRejected ==
    [][/\ \A a \in ArgVertices, b \in ArgVertices, cap \in ArgCaps :
             (InvalidArc(a, b, cap) /\ add_edge(a, b, cap))
                 => UNCHANGED <<graph, capacity, flow>>
       /\ \A a \in ArgVertices, b \in ArgVertices, cap \in ArgCaps, c \in Costs :
             (InvalidArc(a, b, cap) /\ MinCost_add_edge(a, b, cap, c))
                 => UNCHANGED <<graph, capacity, cost, flow>>]_vars

SupplyValues == Supplies \cup {ExampleSupplies[i][2] : i \in 1 .. Len(ExampleSupplies)}

\* C9: set_supply(u, 0) leaves excess, supply and demand unchanged and the
\* engine accepts further calls; a positive value appends u to supply only,
\* a negative value appends u to demand only, each with excess[u] = value.
C9_SetSupply ==
    [][\A a \in Vertices, val \in SupplyValues :
          set_supply(a, val) =>
              /\ pc' = "build" /\ raised' = "none"
              /\ val = 0 => UNCHANGED <<excess, supply, demand>>
              /\ val > 0 => /\ excess' = [excess EXCEPT ![a] = val]
                            /\ supply' = Append(supply, a)
                            /\ demand' = demand
              /\ val < 0 => /\ excess' = [excess EXCEPT ![a] = val]
                            /\ demand' = Append(demand, a)
                            /\ supply' = supply]_vars

\* set_supply(u, 0) was the last call and nothing is registered
C9_Witness ==
    /\ call = "set_supply"
    /\ supply = <<>> /\ demand = <<>>
    /\ \A a \in Vertices : excess[a] = 0

\* C10: max_flow, once called, returns.
C10_MaxFlowTerminates ==
    (call = "max_flow" /\ pc = "max_flow") ~> (call = "max_flow" /\ pc = "returned")

\* max_flow returned after relabelling a vertex above the source
C10_Witness ==
    /\ MaxFlowReturned
    /\ \E a \in Vertices \ {s, t} : height[a] > V

\* C11: a second max_flow(source, sink) on the same engine, with no add_edge in
\* between, returns the value the first call returned and leaves every vertex
\* other than source and sink with net outflow 0.
C11_SecondCallSameResult ==
    [][(Return /\ ret.kind = "int") =>
          /\ ret'.val = ret.val
          /\ \A a \in Vertices \ {s, t} : SumOver(Vertices, flow'[a]) = 0]_vars

RefineRunning == call = "refine" /\ pc \in {"saturate", "discharge", "sweep"}

RefineReturned == call = "refine" /\ pc = "returned"

\* the relabel that is due would take potential[u] below the range followed
AtPotentialFloor == pc = "sweep" /\ potential[u] <= -PotentialFloor

\* C12: every refine(epsilon) phase, from whatever state it is invoked in,
\* returns; a vertex with positive excess and no neighbour with residual
\* capacity does not keep the phase from completing.
C12_RefineTerminates == RefineRunning ~> (RefineReturned \/ AtPotentialFloor)

NothingDeclared == supply = <<>> /\ demand = <<>>

\* C13: when refine(epsilon) returns after being started on a flow with all
\* excesses 0, every ordered pair (u,v) with residual capacity has reduced cost
\* cost[u][v] + potential[u] - potential[v] >= -epsilon.
C13_EpsilonOptimal ==
    (RefineReturned /\ NothingDeclared) =>
        \A a \in Vertices, b \in Vertices :
            Residual(a, b) > 0 => ReducedCost(a, b) >= -epsilon

\* C14: the cost-scaling step of min_cost_flow leaves the stored cost of every
\* arc between distinct vertices at V times the cost registered for it, also
\* when the arc was registered more than once or has an opposite arc.
C14_CostScaledByV ==
    [][min_cost_flow(DefaultAlpha) =>
          \A a \in Vertices, b \in Vertices :
              (a # b /\ capacity[a][b] > 0) => cost'[a][b] = V * cost[a][b]]_vars

\* the vertices the step raised the flow out of a to
PushedTo(a) == {b \in Vertices : flow'[a][b] > flow[a][b]}

\* the positions of graph[a] that hold an admissible neighbour
AdmissiblePositions(a) == {k \in 1 .. Len(graph[a]) : Admissible(a, graph[a][k])}

SeveralAdmissible == Cardinality(AdmissibleSet(NextActive)) > 1

\* C15 as stated: when the active vertex has more than one admissible arc, the
\* push goes to the admissible neighbour that comes first in the insertion
\* order of graph[u].
C15_PushInInsertionOrder ==
    [][(Push /\ SeveralAdmissible) =>
          \E k \in AdmissiblePositions(NextActive) :
              /\ \A l \in AdmissiblePositions(NextActive) : k <= l
              /\ PushedTo(NextActive) = {graph[NextActive][k]}]_vars

\* C15 as amended: when the active vertex has more than one admissible arc,
\* the single push goes to the admissible vertex with the lowest index,
\* whatever the order of the add_edge calls.
C15_PushInIndexOrder ==
    [][(Push /\ SeveralAdmissible) =>
          \E b \in AdmissibleSet(NextActive) :
              /\ \A c \in AdmissibleSet(NextActive) : b <= c
              /\ PushedTo(NextActive) = {b}]_vars

\* the push from vertex u - 1 went to b although c, inserted before b and of
\* higher index, was admissible as well and still is
C15_Witness ==
    /\ call = "max_flow" /\ pc = "max_flow" /\ u > 0 /\ active_node_found
    /\ \E b \in Vertices, c \in Vertices :
          /\ b < c
          /\ graph[u - 1] = <<c, b>>
          /\ flow[u - 1][b] > 0
          /\ flow[u - 1][c] = 0
          /\ Admissible(u - 1, c)
          /\ height[u - 1] = height[b] + 1

\* the step is the preflow initialization of a max_flow call on a built engine
PreflowStep == pc = "build" /\ call' = "max_flow" /\ pc' = "max_flow"

\* C16: on a network without self-loops, repeated arcs included, the preflow
\* initialization saturates every arc out of the source, leaves excess[v]
\* equal to the flow from the source to v and excess[source] equal to minus
\* the flow out of the source; after it and after every push excess[u] is the
\* net flow into u for every vertex u, and the excesses sum to 0.
C16_ExcessMatchesFlow ==
    [][(NoSelfLoops /\ (PreflowStep \/ Push)) =>
          /\ PreflowStep =>
                /\ \A v \in Vertices :
                      Count(graph[s'], v) > 0 =>
                          /\ flow'[s'][v] = capacity[s'][v]
                          /\ excess'[v] = flow'[s'][v]
                /\ excess'[s'] = -SumOver(Vertices, flow'[s'])
          /\ \A a \in Vertices :
                excess'[a] = SumOver(Vertices, [v \in Vertices |-> flow'[v][a]])
          /\ SumOver(Vertices, excess') = 0]_vars

InMaxFlow == call = "max_flow" /\ pc \in {"max_flow", "returned"}

\* C17: in every state of max_flow, from the preflow initialization on,
\* height[u] <= height[v] + 1 for every ordered pair (u,v) with residual
\* capacity.
C17_ValidLabelling ==
    InMaxFlow =>
        \A a \in Vertices, b \in Vertices :
            Residual(a, b) > 0 => height[a] <= height[b] + 1

\* a relabelled vertex has an arc with residual capacity to a vertex exactly
\* one below it
C17_Witness ==
    /\ InMaxFlow
    /\ \E a \in Vertices \ {s, t}, b \in Vertices :
          a # b /\ Residual(a, b) > 0 /\ height[a] > 0 /\ height[a] = height[b] + 1

\* C18: during max_flow no height decreases, a relabel that changes height[u]
\* raises it, height[source] is V from the initialization on and
\* height[sink] stays 0.
C18_HeightsNeverDecrease ==
    [][call' = "max_flow" =>
          /\ \A a \in Vertices : height'[a] >= height[a]
          /\ Relabel => \A a \in Vertices : height'[a] # height[a] => height'[a] > height[a]
          /\ height'[s'] = V
          /\ height'[t'] = 0]_vars

\* a vertex other than source and sink has been relabelled twice or more
C18_Witness ==
    /\ InMaxFlow
    /\ height[s] = V /\ height[t] = 0
    /\ \E a \in Vertices \ {s, t} : height[a] > 1 /\ height[a] < V

\* C19: in every state of max_flow excess[u] >= 0 for every vertex u other
\* than source and sink.
C19_InteriorExcessNonNegative ==
    InMaxFlow => \A a \in Vertices \ {s, t} : excess[a] >= 0

\* a push has taken the excess of an interior vertex to exactly 0
C19_Witness ==
    /\ InMaxFlow
    /\ \E a \in Vertices \ {s, t} :
          /\ excess[a] = 0
          /\ \E b \in Vertices : a # b /\ flow[a][b] > 0

\* C20: every step of refine leaves excess[u] + (sum over v of flow[u][v])
\* unchanged for every vertex u; in the discharge loop every vertex with
\* positive excess is the one being discharged or is in the work-list exactly
\* once; when refine returns on a network nothing was declared on (so it
\* started with all excesses 0), every excess and every net outflow is 0.
C20_RefineKeepsBalances ==
    [][call' = "refine" =>
          /\ \A a \in Vertices :
                excess'[a] + SumOver(Vertices, flow'[a])
                    = excess[a] + SumOver(Vertices, flow[a])
          /\ pc' \in {"discharge", "sweep"} =>
                \A a \in Vertices :
                    excess'[a] > 0 =>
                        \/ pc' = "sweep" /\ a = u' /\ Count(active_nodes', a) = 0
                        \/ Count(active_nodes', a) = 1
          /\ (pc' = "returned" /\ NothingDeclared) =>
                \A a \in Vertices :
                    excess'[a] = 0 /\ SumOver(Vertices, flow'[a]) = 0]_vars

\* refine returned, on a network nothing was declared on, after saturating an
\* arc and relabelling a vertex
C20_Witness ==
    /\ RefineReturned
    /\ NothingDeclared
    /\ \E a \in Vertices : potential[a] < 0
    /\ \A a \in Vertices : excess[a] = 0

====
